---- MODULE Spec2Model ----
(***************************************************************************)
(* A model of the sentiment pipeline of src/src/data_processing.py         *)
(* (build_vocab, bag_of_words) and src/src/naive_bayes.py (NaiveBayes).    *)
(*                                                                         *)
(* Numbers.  A tensor entry is kept as an exact fraction <<n, d>> in       *)
(* lowest terms: d > 0 is the finite value n/d, <<0, 0>> is NaN and        *)
(* <<1, 0>> is +inf.  The rounding of float32 is not modelled.  A value    *)
(* the code holds as a logarithm is kept as the record [exp |-> q] of the  *)
(* fraction q whose logarithm it is, so that a sum of logarithms is a      *)
(* product and -inf is [exp |-> <<0, 1>>].                                 *)
(*                                                                         *)
(* Dictionaries.  A dict is a sequence of <<key, value>> pairs in          *)
(* insertion order.  A vocabulary is a function from words to indices.     *)
(*                                                                         *)
(* Calls.  A method that returns or raises is a record with its status,    *)
(* the kind of the exception and the value returned.                       *)
(*                                                                         *)
(* Specifications.  Spec: any sequence of fit and predictor calls on one   *)
(* classifier.  SpecOneFit: one fit call on the data the caller holds,     *)
(* then one predictor call.  SpecData: build_vocab on a list of examples,  *)
(* then bag_of_words on a text.                                            *)
(***************************************************************************)
EXTENDS Integers, Sequences, FiniteSets, TLC

VARIABLES
    class_priors,               \* NaiveBayes.class_priors
    conditional_probabilities,  \* NaiveBayes.conditional_probabilities
    vocab_size,                 \* NaiveBayes.vocab_size
    out,                        \* the last call on the classifier and how it ended
    training,                   \* the training data the caller holds
    examples,                   \* the tokenised examples given to build_vocab
    vocab,                      \* the vocabulary build_vocab returned
    bow                         \* the last call of bag_of_words and how it ended

vars == <<class_priors, conditional_probabilities, vocab_size, out, training,
          examples, vocab, bow>>
nbVars == <<class_priors, conditional_probabilities, vocab_size, out, training>>
dataVars == <<examples, vocab, bow>>
modelVars == <<class_priors, conditional_probabilities, vocab_size>>

(***************************************************************************)
(* Bounds of the checked instances                                         *)
(***************************************************************************)
\* one training run (SpecOneFit): examples per fit, vocabulary size
MaxExamples == 2
MaxVocab == 2
\* any sequence of calls (Spec): vocabulary size
LifeMaxVocab == 1
\* data processing (SpecData): examples, tokens over all examples, tokens of a text
MaxDocs == 2
MaxWords == 3
MaxTextLen == 2

Labels == {0, 1}
Counts == {0, 1}
Tokens == {"good", "movie", "bad"}
OtherToken == "plot"
Deltas == {<<0, 1>>, <<1, 2>>, <<1, 1>>}

(***************************************************************************)
(* Fractions                                                               *)
(***************************************************************************)
RECURSIVE GCD(_, _)
GCD(a, b) == IF b = 0 THEN a ELSE GCD(b, a % b)

NaN == <<0, 0>>
Inf == <<1, 0>>
Zero == <<0, 1>>
One == <<1, 1>>
IsNaN(x) == x = NaN
IsInf(x) == x = Inf
IsFinite(x) == x[2] > 0

Frac(n, d) == LET g == GCD(n, d) IN <<n \div g, d \div g>>
Whole(n) == <<n, 1>>

Add(x, y) ==
    IF IsNaN(x) \/ IsNaN(y) THEN NaN
    ELSE IF IsInf(x) \/ IsInf(y) THEN Inf
    ELSE Frac(x[1] * y[2] + y[1] * x[2], x[2] * y[2])

Mul(x, y) ==
    IF IsNaN(x) \/ IsNaN(y) THEN NaN
    ELSE IF IsInf(x) \/ IsInf(y)
         THEN (IF x = Zero \/ y = Zero THEN NaN ELSE Inf)
    ELSE Frac(x[1] * y[1], x[2] * y[2])

\* x / y on tensors of non-negative floats: 0/0 is nan, a positive x over 0 is inf
TorchDiv(x, y) ==
    IF IsNaN(x) \/ IsNaN(y) THEN NaN
    ELSE IF IsInf(x) THEN (IF IsInf(y) THEN NaN ELSE Inf)
    ELSE IF IsInf(y) THEN Zero
    ELSE IF y = Zero THEN (IF x = Zero THEN NaN ELSE Inf)
    ELSE Frac(x[1] * y[2], x[2] * y[1])

Less(x, y) ==
    /\ ~IsNaN(x) /\ ~IsNaN(y) /\ x # y
    /\ \/ IsInf(y)
       \/ IsFinite(x) /\ IsFinite(y) /\ x[1] * y[2] < y[1] * x[2]

RECURSIVE SumFrac(_)
SumFrac(s) == IF s = <<>> THEN Zero ELSE Add(Head(s), SumFrac(Tail(s)))

RECURSIVE SumNat(_)
SumNat(s) == IF s = <<>> THEN 0 ELSE Head(s) + SumNat(Tail(s))

(***************************************************************************)
(* Logarithms, kept as the fraction they are the logarithm of              *)
(***************************************************************************)
RECURSIVE PowFrac(_, _)
PowFrac(p, f) == IF f = 0 THEN One ELSE Mul(p, PowFrac(p, f - 1))

\* torch.log(p)
Log(p) == [exp |-> p]
\* f * l for a feature entry f >= 0: 0 * (-inf) and 0 * inf are nan
LogScale(f, l) ==
    IF IsNaN(l.exp) THEN [exp |-> NaN]
    ELSE IF f = 0 THEN (IF l.exp = Zero \/ IsInf(l.exp) THEN [exp |-> NaN]
                        ELSE [exp |-> One])
    ELSE [exp |-> PowFrac(l.exp, f)]
\* l + m: (-inf) + inf is nan
LogAdd(l, m) == [exp |-> Mul(l.exp, m.exp)]
RECURSIVE LogSum(_)
\* torch.sum of a vector of logarithms; the empty sum is 0 = log 1
LogSum(s) == IF s = <<>> THEN [exp |-> One] ELSE LogAdd(Head(s), LogSum(Tail(s)))
\* l < m as floats (false when either is nan)
LogLess(l, m) == Less(l.exp, m.exp)

(***************************************************************************)
(* Dictionaries in insertion order                                         *)
(***************************************************************************)
\* the value None, which is no dict
None == << <<"None">> >>
Keys(d) == {d[k][1] : k \in 1..Len(d)}
HasKey(d, key) == key \in Keys(d)
Get(d, key) == d[CHOOSE k \in 1..Len(d) : d[k][1] = key][2]
Range(s) == {s[k] : k \in 1..Len(s)}

(***************************************************************************)
(* Tensors given to the classifier                                         *)
(***************************************************************************)
Vectors(width) == [1..width -> Counts]
\* a 2-D tensor of shape (n, width)
Matrix(n, width) ==
    {[dim |-> 2, width |-> width, rows |-> m] : m \in [1..n -> Vectors(width)]}
\* the 2-D tensor of shape (n, width) and the 1-D tensor of shape (width,) of zeros
ZeroMatrix(n, width) ==
    [dim |-> 2, width |-> width, rows |-> [k \in 1..n |-> [i \in 1..width |-> 0]]]
ZeroFlat(width) == [dim |-> 1, width |-> width, rows |-> <<[i \in 1..width |-> 0]>>]
LabelTensors(sizes) == UNION {[1..n -> Labels] : n \in sizes}
Dataset(features, labels, delta) ==
    [features |-> features, labels |-> labels, delta |-> delta]

\* as many labels as rows, whatever the rows hold
Matching(sizes, maxVocab) ==
    UNION {{Dataset(f, l, d) : f \in Matrix(n, w), l \in LabelTensors({n}), d \in Deltas} :
           n \in sizes, w \in 0..maxVocab}
\* malformed tensors: fit does not read the entries of a tensor whose shape it
\* rejects, so one tensor stands here for each shape
Mismatched(sizes, maxVocab) ==
    {t \in {Dataset(f, l, d) : f \in {ZeroMatrix(n, w) : n \in sizes, w \in 0..maxVocab}
                                      \cup {ZeroFlat(w) : w \in 1..maxVocab},
                               l \in LabelTensors(sizes), d \in Deltas} :
        t.features.dim = 1 \/ Len(t.labels) # Len(t.features.rows)}
Datasets(sizes, maxVocab) == Matching(sizes, maxVocab) \cup Mismatched(sizes, maxVocab)
\* features of every length up to one more than the largest vocabulary, so that a
\* feature can be too long for every model; each holds one count throughout
Queries(maxVocab) == {[i \in 1..w |-> c] : w \in 0..(maxVocab + 1), c \in Counts}

\* the numbers of rows and of labels in the runs of many calls
LifeSizes == {0, 1}
TrainingSets == Datasets(0..MaxExamples, MaxVocab)
LifeDatasets == Datasets(LifeSizes, LifeMaxVocab)
LifeQueries == Queries(LifeMaxVocab)
NoDataset == Dataset(ZeroMatrix(0, 0), <<>>, <<1, 1>>)

(***************************************************************************)
(* NaiveBayes.estimate_class_priors                                        *)
(***************************************************************************)
RECURSIVE CounterFrom(_, _)
CounterFrom(labels, acc) ==
    IF labels = <<>> THEN acc
    ELSE LET l == Head(labels) IN
         IF HasKey(acc, l)
         THEN CounterFrom(Tail(labels),
                  [k \in 1..Len(acc) |->
                      IF acc[k][1] = l THEN <<l, acc[k][2] + 1>> ELSE acc[k]])
         ELSE CounterFrom(Tail(labels), Append(acc, <<l, 1>>))
\* Counter(labels.tolist()): the labels in order of first appearance, with their counts
Counter(labels) == CounterFrom(labels, <<>>)

PriorOffByOne(count, total_count) == Frac(count, total_count + 1)
Prior(count, total_count) == Frac(count, total_count)

estimate_class_priors(labels) ==
    LET class_counts == Counter(labels)
        total_count == Len(labels)
    IN  [k \in 1..Len(class_counts) |->
            <<class_counts[k][1], Prior(class_counts[k][2], total_count)>>]

(***************************************************************************)
(* NaiveBayes.estimate_conditional_probabilities                           *)
(***************************************************************************)
RECURSIVE SortedSeq(_)
SortedSeq(S) ==
    IF S = {} THEN <<>>
    ELSE LET m == CHOOSE x \in S : \A y \in S : x <= y
         IN  <<m>> \o SortedSeq(S \ {m})
\* torch.unique(labels): the distinct labels in increasing order
Unique(labels) == SortedSeq(Range(labels))

RECURSIVE SelectRows(_, _, _)
\* features[labels == class_label] for a mask as long as features
SelectRows(rows, labels, class_label) ==
    IF rows = <<>> THEN <<>>
    ELSE (IF Head(labels) = class_label THEN <<Head(rows)>> ELSE <<>>)
         \o SelectRows(Tail(rows), Tail(labels), class_label)

\* torch.sum(class_examples, dim=0)
ColumnSums(class_examples, width) ==
    [i \in 1..width |->
        SumNat([k \in 1..Len(class_examples) |-> class_examples[k][i]])]

SmoothedNoWidth(word_count, total_words, delta, width) ==
    TorchDiv(Add(Whole(word_count), delta), Add(Whole(total_words), delta))
SmoothedNoDelta(word_count, total_words, delta, width) ==
    TorchDiv(Whole(word_count), Add(Whole(total_words), Mul(delta, Whole(width))))
Smoothed(word_count, total_words, delta, width) ==
    TorchDiv(Add(Whole(word_count), delta),
             Add(Whole(total_words), Mul(delta, Whole(width))))

SmoothedProbs(features, labels, delta, class_label) ==
    LET class_examples == SelectRows(features.rows, labels, class_label)
        word_counts == ColumnSums(class_examples, features.width)
        total_words == SumNat(word_counts)
    IN  [i \in 1..features.width |->
            Smoothed(word_counts[i], total_words, delta, features.width)]

\* features is 2-D here: fit reads features.shape[1] before it calls this
estimate_conditional_probabilities(features, labels, delta) ==
    LET unique_classes == Unique(labels) IN
    IF unique_classes # <<>> /\ Len(labels) # Len(features.rows)
    THEN [status |-> "raise", err |-> "IndexError", value |-> <<>>]
    ELSE [status |-> "return", err |-> "none",
          value |-> [k \in 1..Len(unique_classes) |->
                        <<unique_classes[k],
                          SmoothedProbs(features, labels, delta, unique_classes[k])>>]]

(***************************************************************************)
(* NaiveBayes.fit                                                          *)
(***************************************************************************)
Call(op, status, err, value, arg) ==
    [op |-> op, status |-> status, err |-> err, value |-> value, arg |-> arg]

Fit(features, labels, delta) ==
    /\ class_priors' = estimate_class_priors(labels)
    /\ IF features.dim < 2
       THEN /\ UNCHANGED <<vocab_size, conditional_probabilities>>
            /\ out' = Call("fit", "raise", "IndexError", <<>>, <<>>)
       ELSE LET r == estimate_conditional_probabilities(features, labels, delta) IN
            /\ vocab_size' = features.width
            /\ conditional_probabilities' =
                   IF r.status = "return" THEN r.value ELSE conditional_probabilities
            /\ out' = Call("fit", r.status, r.err, <<>>, <<>>)
    /\ UNCHANGED <<training, dataVars>>

(***************************************************************************)
(* NaiveBayes.estimate_class_posteriors                                    *)
(***************************************************************************)
IsNone(d) == d = None
\* not d, for a dict or None
Falsy(d) == IsNone(d) \/ d = <<>>

ConditionalAt(idx, class_label) == conditional_probabilities[idx][2]
\* self.conditional_probabilities[class_label]
Conditional(idx, class_label) == Get(conditional_probabilities, class_label)

\* shapes (m,) and (n,) broadcast when equal or when one of them is 1
Broadcastable(m, n) == m = n \/ m = 1 \/ n = 1
BroadcastLen(m, n) == IF m = 1 THEN n ELSE m
At(v, i) == IF Len(v) = 1 THEN v[1] ELSE v[i]
\* feature * log_conditional_probs
Weighted(feature, logs) ==
    [i \in 1..BroadcastLen(Len(feature), Len(logs)) |->
        LogScale(At(feature, i), At(logs, i))]

\* one pass of the loop over class_priors.items()
ClassPosterior(idx, feature) ==
    LET class_label == class_priors[idx][1]
        class_prior == class_priors[idx][2]
    IN  IF ~HasKey(conditional_probabilities, class_label)
        THEN [status |-> "raise", err |-> "KeyError", value |-> <<>>]
        ELSE LET probs == Conditional(idx, class_label)
                 log_conditional_probs == [i \in 1..Len(probs) |-> Log(probs[i])]
             IN  IF ~Broadcastable(Len(feature), Len(probs))
                 THEN [status |-> "raise", err |-> "RuntimeError", value |-> <<>>]
                 ELSE [status |-> "return", err |-> "none",
                       value |-> LogAdd(Log(class_prior),
                                        LogSum(Weighted(feature, log_conditional_probs)))]

estimate_class_posteriors(feature) ==
    IF IsNone(conditional_probabilities) \/ IsNone(class_priors)
    THEN [status |-> "raise", err |-> "ValueError", value |-> <<>>]
    ELSE LET steps == [idx \in 1..Len(class_priors) |-> ClassPosterior(idx, feature)]
             failed == {idx \in 1..Len(class_priors) : steps[idx].status = "raise"}
         IN  IF failed # {}
             THEN steps[CHOOSE idx \in failed : \A j \in failed : idx <= j]
             ELSE [status |-> "return", err |-> "none",
                   value |-> [idx \in 1..Len(class_priors) |-> steps[idx].value]]

(***************************************************************************)
(* NaiveBayes.predict and NaiveBayes.predict_proba                         *)
(***************************************************************************)
\* torch.argmax of a non-empty vector: nan counts as the greatest value, and of
\* several greatest values the first is taken; the position is counted from 0
Argmax(v) ==
    LET nans == {k \in 1..Len(v) : IsNaN(v[k].exp)}
        best == IF nans # {} THEN nans
                ELSE {k \in 1..Len(v) : \A j \in 1..Len(v) : ~LogLess(v[k], v[j])}
    IN  (CHOOSE k \in best : \A j \in best : k <= j) - 1

\* torch.softmax(v, dim=0)
Softmax(v) ==
    LET total == SumFrac([k \in 1..Len(v) |-> v[k].exp])
    IN  [k \in 1..Len(v) |-> TorchDiv(v[k].exp, total)]

predict(feature) ==
    IF Falsy(class_priors) \/ Falsy(conditional_probabilities)
    THEN [status |-> "raise", err |-> "Exception", value |-> <<>>]
    ELSE LET log_posteriors == estimate_class_posteriors(feature) IN
         IF log_posteriors.status = "raise" THEN log_posteriors
         ELSE [status |-> "return", err |-> "none",
               value |-> Argmax(log_posteriors.value)]

predict_proba(feature) ==
    IF Falsy(class_priors) \/ Falsy(conditional_probabilities)
    THEN [status |-> "raise", err |-> "Exception", value |-> <<>>]
    ELSE LET log_posteriors == estimate_class_posteriors(feature) IN
         IF log_posteriors.status = "raise" THEN log_posteriors
         ELSE [status |-> "return", err |-> "none",
               value |-> Softmax(log_posteriors.value)]

Posteriors(feature) ==
    LET r == estimate_class_posteriors(feature) IN
    /\ out' = Call("posteriors", r.status, r.err, r.value, feature)
    /\ UNCHANGED <<class_priors, conditional_probabilities, vocab_size>>
    /\ UNCHANGED <<training, dataVars>>

PredictStoringSize(feature) ==
    LET r == predict(feature) IN
    /\ out' = Call("predict", r.status, r.err, r.value, feature)
    /\ vocab_size' = Len(feature)
    /\ UNCHANGED <<class_priors, conditional_probabilities>>
    /\ UNCHANGED <<training, dataVars>>
Predict(feature) ==
    LET r == predict(feature) IN
    /\ out' = Call("predict", r.status, r.err, r.value, feature)
    /\ UNCHANGED <<class_priors, conditional_probabilities, vocab_size>>
    /\ UNCHANGED <<training, dataVars>>

PredictProba(feature) ==
    LET r == predict_proba(feature) IN
    /\ out' = Call("predict_proba", r.status, r.err, r.value, feature)
    /\ UNCHANGED <<class_priors, conditional_probabilities, vocab_size>>
    /\ UNCHANGED <<training, dataVars>>

(***************************************************************************)
(* Specifications of the classifier                                        *)
(***************************************************************************)
\* NaiveBayes.__init__
Created ==
    /\ class_priors = <<>>
    /\ conditional_probabilities = <<>>
    /\ vocab_size = 0
    /\ out = Call("init", "return", "none", <<>>, <<>>)

NoData ==
    /\ examples = <<>>
    /\ vocab = <<>>
    /\ bow = [stage |-> "start", text |-> <<>>, binary |-> FALSE, status |-> "none",
              value |-> <<>>]

\* any sequence of calls on one classifier, with well-formed and malformed tensors
Init == Created /\ training = NoDataset /\ NoData

Next ==
    \/ \E t \in LifeDatasets : Fit(t.features, t.labels, t.delta)
    \/ \E feature \in LifeQueries : Posteriors(feature)
    \/ \E feature \in LifeQueries : Predict(feature)
    \/ \E feature \in LifeQueries : PredictProba(feature)

Spec == Init /\ [][Next]_vars

\* one training run: the classifier is created, fit is called once on the data the
\* caller holds, and the model is then read with a feature of the fitted length
InitOneFit == Created /\ training \in TrainingSets /\ NoData

NextOneFit ==
    \/ /\ out.op = "init"
       /\ Fit(training.features, training.labels, training.delta)
    \/ /\ out.op = "fit"
       /\ \E feature \in Vectors(vocab_size) : Posteriors(feature)
    \/ /\ out.op = "fit"
       /\ \E feature \in Vectors(vocab_size) : Predict(feature)
    \/ /\ out.op = "fit"
       /\ \E feature \in Vectors(vocab_size) : PredictProba(feature)

SpecOneFit == InitOneFit /\ [][NextOneFit]_vars

(***************************************************************************)
(* data_processing.build_vocab                                             *)
(***************************************************************************)
NextIndexAlways(i, seen) == i + 1
\* i after one word: it moves on only when the word was given the index
NextIndex(i, seen) == IF seen THEN i ELSE i + 1

RECURSIVE ScanWords(_, _)
\* the loop over the words of one example, on the loop state [vocab, i]
ScanWords(words, st) ==
    IF words = <<>> THEN st
    ELSE LET word == Head(words)
             seen == word \in DOMAIN st.vocab
         IN  ScanWords(Tail(words),
                 [vocab |-> IF seen THEN st.vocab ELSE (word :> st.i) @@ st.vocab,
                  i |-> NextIndex(st.i, seen)])

RECURSIVE ScanExamples(_, _)
\* the loop over the examples
ScanExamples(exs, st) ==
    IF exs = <<>> THEN st
    ELSE ScanExamples(Tail(exs), ScanWords(Head(exs), st))

build_vocab(exs) == ScanExamples(exs, [vocab |-> <<>>, i |-> 0]).vocab

(***************************************************************************)
(* data_processing.bag_of_words                                            *)
(***************************************************************************)
SlotCounting(value, binary) == value + 1
\* the new value of bow[idx]
Slot(value, binary) == IF binary THEN 1 ELSE value + 1

RECURSIVE FillBow(_, _, _, _)
\* the loop over the words of the text; bow[idx] is out of range for idx >= len(bow)
FillBow(text, v, binary, r) ==
    IF text = <<>> \/ r.status = "raise" THEN r
    ELSE LET word == Head(text) IN
         IF word \notin DOMAIN v THEN FillBow(Tail(text), v, binary, r)
         ELSE LET idx == v[word] IN
              IF idx >= Len(r.value)
              THEN [status |-> "raise", value |-> r.value]
              ELSE FillBow(Tail(text), v, binary,
                       [status |-> "return",
                        value |-> [r.value EXCEPT ![idx + 1] = Slot(@, binary)]])

bag_of_words(text, v, binary) ==
    FillBow(text, v, binary,
            [status |-> "return", value |-> [k \in 1..Cardinality(DOMAIN v) |-> 0]])

(***************************************************************************)
(* Specification of the data processing                                    *)
(***************************************************************************)
Docs(maxLen) == UNION {[1..n -> Tokens] : n \in 0..maxLen}
RECURSIVE ExampleListsUpTo(_, _)
\* the lists of at most maxDocs examples that hold at most maxWords tokens together
ExampleListsUpTo(maxDocs, maxWords) ==
    IF maxDocs = 0 THEN {<<>>}
    ELSE {<<>>} \cup
         UNION {{<<doc>> \o rest :
                    rest \in ExampleListsUpTo(maxDocs - 1, maxWords - Len(doc))} :
                doc \in Docs(maxWords)}
ExampleLists == ExampleListsUpTo(MaxDocs, MaxWords)
Texts == UNION {[1..n -> Tokens \cup {OtherToken}] : n \in 0..MaxTextLen}

BowCall(stage, text, binary, status, value) ==
    [stage |-> stage, text |-> text, binary |-> binary, status |-> status,
     value |-> value]

InitData ==
    /\ Created
    /\ training = NoDataset
    /\ examples \in ExampleLists
    /\ vocab = <<>>
    /\ bow = BowCall("start", <<>>, FALSE, "none", <<>>)

BuildVocab ==
    /\ bow.stage = "start"
    /\ vocab' = build_vocab(examples)
    /\ bow' = BowCall("vocab", <<>>, FALSE, "none", <<>>)
    /\ UNCHANGED <<examples, nbVars>>

BagOfWords(text, binary) ==
    LET r == bag_of_words(text, vocab, binary) IN
    /\ bow.stage = "vocab"
    /\ bow' = BowCall("bow", text, binary, r.status, r.value)
    /\ UNCHANGED <<examples, vocab, nbVars>>

NextData ==
    \/ BuildVocab
    \/ \E text \in Texts, binary \in BOOLEAN : BagOfWords(text, binary)

SpecData == InitData /\ [][NextData]_vars

(***************************************************************************)
(* What the claims speak of                                                *)
(***************************************************************************)
PredictorOps == {"posteriors", "predict", "predict_proba"}
\* both dicts are populated
Populated == ~Falsy(class_priors) /\ ~Falsy(conditional_probabilities)
\* the data the caller holds is well-formed: a non-empty 2-D matrix with one label per row
WellFormed ==
    /\ training.features.dim = 2
    /\ Len(training.labels) = Len(training.features.rows)
    /\ Len(training.labels) > 0
Positive(x) == Less(Zero, x)
\* the examples of a class, counted from the training data
Members(c) == {k \in 1..Len(training.labels) : training.labels[k] = c}
FirstIndex(c) == CHOOSE k \in Members(c) : \A j \in Members(c) : k <= j
WordCount(c, i) ==
    SumNat([k \in 1..Len(training.labels) |->
               IF training.labels[k] = c THEN training.features.rows[k][i] ELSE 0])
TotalWords(c) ==
    SumNat([k \in 1..Len(training.labels) |->
               IF training.labels[k] = c THEN SumNat(training.features.rows[k]) ELSE 0])
\* log(prior of the k-th class) + sum of feature[i] * log(conditional[that class][i])
LogPosterior(k, feature) ==
    LET probs == Get(conditional_probabilities, class_priors[k][1]) IN
    LogAdd(Log(class_priors[k][2]),
           LogSum([i \in 1..Len(feature) |-> LogScale(feature[i], Log(probs[i]))]))
\* the first position of the class order at which the log-posterior is greatest
FirstMax(feature) ==
    CHOOSE k \in 1..Len(class_priors) :
        /\ \A j \in 1..Len(class_priors) :
               ~LogLess(LogPosterior(k, feature), LogPosterior(j, feature))
        /\ \A j \in 1..(k - 1) : LogLess(LogPosterior(j, feature), LogPosterior(k, feature))
NoNaN(feature) ==
    \A k \in 1..Len(class_priors) : ~IsNaN(LogPosterior(k, feature).exp)

\* the last call of a predictor, made again on the state it left
Again ==
    LET r == CASE out.op = "posteriors" -> estimate_class_posteriors(out.arg)
               [] out.op = "predict" -> predict(out.arg)
               [] out.op = "predict_proba" -> predict_proba(out.arg)
    IN  r.status = out.status /\ r.err = out.err /\ r.value = out.value
\* the tokens of the examples in the order in which build_vocab meets them
RECURSIVE Flatten(_)
Flatten(exs) == IF exs = <<>> THEN <<>> ELSE Head(exs) \o Flatten(Tail(exs))
\* the place at which a token is first met
FirstSeen(words, w) ==
    CHOOSE k \in 1..Len(words) :
        words[k] = w /\ \A j \in 1..(k - 1) : words[j] # w
\* how often a token occurs in a text
Occurrences(text, w) == Cardinality({k \in 1..Len(text) : text[k] = w})

(***************************************************************************)
(* The claims                                                              *)
(***************************************************************************)
\* C1: predict returns the label of the class whose log-posterior is greatest, the
\* first such class in the order of class_priors.
C1_PredictReturnsLabel ==
    (out.op = "predict" /\ out.status = "return" /\ NoNaN(out.arg))
        => out.value = class_priors[FirstMax(out.arg)][1]

\* C2: with class_priors and conditional_probabilities both empty, posteriors,
\* predict and predict_proba each end in an error.
C2_UntrainedRaises ==
    (out.op \in PredictorOps /\ class_priors = <<>> /\ conditional_probabilities = <<>>)
        => out.status = "raise"

\* C3: after fit on a non-empty label sequence, class_priors has one entry for each
\* distinct label and no other, each prior is the number of examples with the label
\* over the number of examples, and the priors sum to 1.
C3_Priors ==
    (out.op = "fit" /\ training.labels # <<>>) =>
        /\ Keys(class_priors) = Range(training.labels)
        /\ Len(class_priors) = Cardinality(Range(training.labels))
        /\ \A k \in 1..Len(class_priors) :
               /\ IsFinite(class_priors[k][2])
               /\ class_priors[k][2][1] * Len(training.labels)
                      = Cardinality(Members(class_priors[k][1])) * class_priors[k][2][2]
        /\ SumFrac([k \in 1..Len(class_priors) |-> class_priors[k][2]]) = One
C3_Witness ==
    /\ out.op = "fit"
    /\ Len(training.labels) = 2
    /\ Len(class_priors) = 2
    /\ class_priors[1][1] = 1

\* C4: after fit on well-formed data, the conditional probability of class c and
\* index i is (word_count + delta) / (total_words + delta * vocab_size), with the
\* counts taken over the examples labelled c (0/0 being nan).
C4_Smoothing ==
    (out.op = "fit" /\ WellFormed) =>
        /\ out.status = "return"
        /\ vocab_size = training.features.width
        /\ Keys(conditional_probabilities) = Range(training.labels)
        /\ \A c \in Range(training.labels) :
               LET probs == Get(conditional_probabilities, c)
                   den == Add(Whole(TotalWords(c)), Mul(training.delta, Whole(vocab_size)))
               IN  /\ Len(probs) = vocab_size
                   /\ \A i \in 1..vocab_size :
                          LET num == Add(Whole(WordCount(c, i)), training.delta) IN
                          IF den = Zero THEN IsNaN(probs[i])
                          ELSE /\ IsFinite(probs[i])
                               /\ probs[i][1] * num[2] * den[1]
                                      = num[1] * den[2] * probs[i][2]
C4_Witness ==
    /\ out.op = "fit" /\ WellFormed
    /\ training.delta = <<1, 2>>
    /\ vocab_size = 2
    /\ Len(conditional_probabilities) = 2
    /\ \E c \in Range(training.labels) : WordCount(c, 1) = 1 /\ TotalWords(c) = 2

\* C5 as stated: with delta > 0 and a vocabulary of at least one word, every
\* conditional probability is strictly between 0 and 1 and every class's vector sums to 1.
C5_StrictlyBelowOne ==
    (out.op = "fit" /\ WellFormed /\ Positive(training.delta) /\ vocab_size >= 1) =>
        \A k \in 1..Len(conditional_probabilities) :
            LET probs == conditional_probabilities[k][2] IN
            /\ \A i \in 1..Len(probs) : Positive(probs[i]) /\ Less(probs[i], One)
            /\ SumFrac(probs) = One
\* C5 as amended: with delta > 0 and a vocabulary of at least one word, every
\* conditional probability is strictly greater than 0 and at most 1, strictly less
\* than 1 when the vocabulary has at least two words, and every class's vector sums to 1.
C5_Probabilities ==
    (out.op = "fit" /\ WellFormed /\ Positive(training.delta) /\ vocab_size >= 1) =>
        \A k \in 1..Len(conditional_probabilities) :
            LET probs == conditional_probabilities[k][2] IN
            /\ \A i \in 1..Len(probs) :
                   /\ Positive(probs[i])
                   /\ ~Less(One, probs[i]) /\ IsFinite(probs[i])
                   /\ vocab_size >= 2 => Less(probs[i], One)
            /\ SumFrac(probs) = One
C5_Witness ==
    /\ out.op = "fit" /\ WellFormed /\ Positive(training.delta)
    /\ vocab_size = 2
    /\ \E c \in Range(training.labels) : TotalWords(c) = 0
    /\ \E c \in Range(training.labels) : TotalWords(c) = 2

\* C6: class_priors and conditional_probabilities have the same class keys after
\* any sequence of fit calls, failing ones included.
C6_SameKeys == Keys(class_priors) = Keys(conditional_probabilities)

\* C7: a call of posteriors, predict or predict_proba leaves class_priors,
\* conditional_probabilities and vocab_size as they were, whether it returns or
\* raises, and the same call on the state it leaves ends the same way.
C7_ReadOnly ==
    /\ [][out'.op \in PredictorOps => UNCHANGED modelVars]_vars
    /\ [](out.op \in PredictorOps => Again)
C7_Witness ==
    /\ out.op = "predict" /\ out.status = "return"
    /\ Len(out.arg) = 1 /\ out.arg[1] = 1

\* C8: build_vocab returns a mapping whose keys are the distinct tokens of the
\* examples and whose indices are the numbers 0 .. |V|-1, a token first seen earlier
\* having the smaller index.
C8_Vocabulary ==
    bow.stage # "start" =>
        LET words == Flatten(examples) IN
        /\ DOMAIN vocab = Range(words)
        /\ {vocab[w] : w \in DOMAIN vocab} = 0..(Cardinality(DOMAIN vocab) - 1)
        /\ \A a, b \in DOMAIN vocab :
               FirstSeen(words, a) < FirstSeen(words, b) => vocab[a] < vocab[b]
C8_Witness ==
    /\ bow.stage = "vocab"
    /\ Len(examples) = 2
    /\ examples[1] = <<"movie", "movie">>
    /\ examples[2] = <<"good">>
    /\ vocab["movie"] = 0 /\ vocab["good"] = 1

\* C9: bag_of_words on a vocabulary V and a text never fails and returns a vector
\* of length |V| whose entry V[w] is the number of occurrences of w in the text, or,
\* when binary, 1 if w occurs and 0 if not; the vocabulary is as build_vocab left it.
C9_BagOfWords ==
    bow.stage = "bow" =>
        /\ bow.status = "return"
        /\ Len(bow.value) = Cardinality(DOMAIN vocab)
        /\ \A w \in DOMAIN vocab :
               bow.value[vocab[w] + 1] =
                   IF bow.binary THEN (IF Occurrences(bow.text, w) > 0 THEN 1 ELSE 0)
                   ELSE Occurrences(bow.text, w)
        /\ vocab = build_vocab(examples)
C9_Witness ==
    /\ bow.stage = "bow" /\ bow.status = "return"
    /\ bow.binary
    /\ bow.text = <<"movie", "movie">>
    /\ Len(bow.value) = 2
    /\ "movie" \in DOMAIN vocab

\* C10: on a populated model and a feature of the fitted length, posteriors returns
\* one value per class of class_priors, in the order in which the labels first
\* appear in the training labels, and the k-th value is log(prior of the k-th class)
\* + sum of feature[i] * log(conditional_probabilities[k-th class][i]), while
\* conditional_probabilities holds the classes in increasing order.
C10_Posteriors ==
    (out.op = "posteriors" /\ Populated) =>
        /\ out.status = "return"
        /\ Len(out.value) = Len(class_priors)
        /\ \A k \in 1..Len(class_priors) : out.value[k] = LogPosterior(k, out.arg)
        /\ \A k, m \in 1..Len(class_priors) :
               k < m => FirstIndex(class_priors[k][1]) < FirstIndex(class_priors[m][1])
        /\ \A k, m \in 1..Len(conditional_probabilities) :
               k < m => conditional_probabilities[k][1] < conditional_probabilities[m][1]
C10_Witness ==
    /\ out.op = "posteriors" /\ out.status = "return"
    /\ Len(class_priors) = 2
    /\ class_priors[1][1] = 1
    /\ conditional_probabilities[1][1] = 0
    /\ out.arg = <<1, 0>>
    /\ out.value[1] # out.value[2]

====
